---- MODULE Spec2Model ----
(***************************************************************************)
(* Model of the sticker publishing core of twitter-status-bot (src/bot.py) *)
(* against the Telegram sticker-set API: the bot-global sticker set, the   *)
(* per-user file_ids (History) and temp_file_ids (PendingSelection), and   *)
(* the message / inline / chosen-inline-result handlers.  Every platform   *)
(* call of a handler is one step; code between two platform calls runs     *)
(* with the step of the call that precedes it.                             *)
(* The error handler (error(), lines 67-107) runs with the step that       *)
(* raised the exception, except for its time.sleep.  The set_timezone      *)
(* conversation of src/bot/settimezone.py is a second, independent state   *)
(* machine (SpecTimezone).                                                 *)
(***************************************************************************)
EXTENDS Integers, Sequences, FiniteSets, TLC

VARIABLES
    created,    \* the sticker set exists on the platform
    stickers,   \* sticker_set.stickers as the platform lists it (append order)
    rendered,   \* rendered[id]: the user whose text sticker id was built from
    nextKey,    \* number of uuid4 keys issued so far, plus one
    history,    \* history[u] = user_data[FILE_IDS] of user u
    temp,       \* temp[u] = user_data[TEMP_FILE_IDS] of user u (key -> file id)
    proc,       \* proc[u]: the message / inline handler in flight for user u
    update,     \* the chosen_inline_result update handled by the last step
    raised,     \* the exception the platform call of the last step raised
    conv,       \* conv[u]: state of the set_timezone conversation of user u
    tzinfo,     \* tzinfo[u] = user_data.tzinfo of user u
    clock,      \* clock[u]: seconds since the conversation of u was last active
    handled     \* the callback the conversation ran in the last step

(* the set_timezone conversation (src/bot/settimezone.py) *)
dialog == <<conv, tzinfo, clock, handled>>

(* the sticker handlers (src/bot.py) *)
bot == <<created, stickers, rendered, nextKey, history, temp, proc, update,
         raised>>

vars == <<created, stickers, rendered, nextKey, history, temp, proc, update,
          raised, conv, tzinfo, clock, handled>>

(* Bound of the model *)
MaxPublish == 2       \* stickers added to the set in one behaviour of Spec
MaxDeep == 3          \* stickers added to the set in one behaviour of SpecDeep
MaxFlood == 1         \* stickers added to the set in one behaviour of SpecFlood

Users == {"u1", "u2"}

(* settimezone.py: the states of the conversation, its timeout in seconds, *)
(* the values of user_data.tzinfo                                          *)
State == 42
END == -1
ConversationTimeout == 30
NoTimezone == "none"
Timezones == {"UTC", "Europe/Berlin"}
NoCallback == [user |-> "none", kind |-> "none", value |-> NoTimezone,
               callback |-> "none", after |-> "none"]

Seed == 0             \* file id of the logo sticker the set is created with
None == -1            \* Python's None (dict.get on a missing key)
EmptyDict == [k \in {} |-> None]

NextId == Len(rendered) + 1
Last(s) == s[Len(s)]

Reversed(s) == [i \in 1..Len(s) |-> s[Len(s) - i + 1]]

RemoveSticker(s, f) == SelectSeq(s, LAMBDA x : x # f)

(* result ids: f'tweet {i}' (line 229) or str(uuid4()) (line 237) *)
TweetId(i) == <<"tweet", i>>
KeyId(k) == <<"key", k>>
StartsWithTweet(rid) == rid[1] = "tweet"
(* the result ids a chosen_inline_result update may cite: a cached sticker *)
(* of the user's file_ids, a key that is in temp_file_ids, or a key that   *)
(* is not (key 0)                                                          *)
ResultIds(u) ==
    {TweetId(i) : i \in 0..(Len(history[u]) - 1)}
    \cup {KeyId(0)} \cup {KeyId(k) : k \in DOMAIN temp[u]}

NoUpdate == [user |-> "none", result_id |-> <<"none", 0>>]

NoException == [user |-> "none", exc |-> "none"]
Exception(u, e) == [user |-> u, exc |-> e]

(* HistoryResults without reversed(): oldest reference first *)
HistoryResultsOldestFirst(u) ==
    [i \in 1..Len(history[u]) |->
        [id |-> TweetId(i - 1), sticker_file_id |-> history[u][i]]]

(* inline(), lines 226-232: the cached-sticker results built from file_ids *)
HistoryResults(u) ==
    LET r == Reversed(history[u])
    IN  [i \in 1..Len(r) |-> [id |-> TweetId(i - 1), sticker_file_id |-> r[i]]]

Idle == [pc |-> "idle", kind |-> "none", text |-> "",
         gssRet |-> "none", cleanRet |-> "none", todo |-> <<>>,
         file_id |-> None, results |-> <<>>, mine |-> None]

PlatformPcs == {"gss", "create", "gss2", "del", "add",
                "reply_sticker", "reply_text", "answer"}

(* messages of the BadRequest the platform answers a call with *)
Occupied == "sticker set name is already occupied"
NotModified == "Stickerset_not_modified"
TooOld == "Query is too old"
OtherBadRequest == "Bad Request"

Init ==
    /\ created = FALSE
    /\ stickers = <<>>
    /\ rendered = <<>>
    /\ nextKey = 1
    /\ history = [u \in Users |-> <<>>]
    /\ temp = [u \in Users |-> EmptyDict]
    /\ proc = [u \in Users |-> Idle]
    /\ update = NoUpdate
    /\ raised = NoException
    /\ conv = [u \in Users |-> END]
    /\ tzinfo = [u \in Users |-> NoTimezone]
    /\ clock = [u \in Users |-> 0]
    /\ handled = NoCallback

(* The dispatcher hands updates of different users to handlers that run    *)
(* concurrently; the updates of one user are handled one after the other.  *)
Dispatch(u) == proc[u].pc = "idle"

(* Stickers still to be added by handlers in flight, plus those added:     *)
(* bounds the number of publishes of a behaviour.                          *)
Publishing ==
    Len(rendered)
    + Cardinality({u \in Users : /\ proc[u].pc # "idle"
                                 /\ proc[u].text = "ok"
                                 /\ proc[u].mine = None})

(* An exception e leaves the handler and the dispatcher calls error(): the  *)
(* test of line 79 sends it to time.sleep (line 80), or to lines 83-107     *)
(* ('Something went wrong' to the user, the traceback to ADMIN), which run  *)
(* with the step that raised e.                                             *)
OnError(e) == IF e = "RetryAfter" THEN [Idle EXCEPT !.pc = "sleep"] ELSE Idle

(* clean_sticker_set is entered: its first platform call is line 152 *)
EnterClean(r, ret) ==
    [r EXCEPT !.pc = "gss", !.gssRet = "clean", !.cleanRet = ret, !.todo = <<>>]

(* the handler's last statement (lines 213, 254): clean_sticker_set, with   *)
(* no local of the handler read after it                                    *)
FinalClean(r) == EnterClean([Idle EXCEPT !.kind = r.kind], "end")

(* AfterClean without the except clause of line 241: the HyphenationError *)
(* of an inline query leaves the handler                                 *)
AfterCleanUncaught(r) ==
    IF r.cleanRet = "end" THEN Idle
    ELSE IF r.text = "bad"
         THEN IF r.kind = "message"
              THEN [r EXCEPT !.pc = "reply_text", !.todo = <<>>]
              ELSE OnError("HyphenationError")
         ELSE [r EXCEPT !.pc = "gss", !.gssRet = "add", !.todo = <<>>]

(* clean_sticker_set has returned: to get_sticker_id line 180 (build_sticker, *)
(* lines 184-188, HyphenationError caught at 211 / 241), or to the end of    *)
(* the handler (lines 213, 254).                                             *)
AfterClean(r) ==
    IF r.cleanRet = "end" THEN Idle
    ELSE IF r.text = "bad"
         THEN IF r.kind = "message"
              THEN [r EXCEPT !.pc = "reply_text", !.todo = <<>>]
              ELSE [r EXCEPT !.pc = "answer", !.results = <<>>, !.todo = <<>>]
         ELSE [r EXCEPT !.pc = "gss", !.gssRet = "add", !.todo = <<>>]

(* AfterGet with a clean_sticker_set that deletes sticker_set.stickers, *)
(* not stickers[1:]                                                     *)
AfterGetDeletesAll(r, ss) ==
    CASE r.gssRet = "clean" ->
            IF Len(ss) > 1
            THEN [r EXCEPT !.pc = "del", !.todo = ss]
            ELSE AfterClean(r)
      [] r.gssRet = "add" -> [r EXCEPT !.pc = "add"]
      [] r.gssRet = "fetch" ->
            IF r.kind = "message"
            THEN [r EXCEPT !.pc = "reply_sticker", !.file_id = Last(ss)]
            ELSE [r EXCEPT !.pc = "answer", !.file_id = Last(ss),
                           !.results = <<[id |-> KeyId(nextKey),
                                          sticker_file_id |-> Last(ss)]>>
                                       \o r.results]

(* get_sticker_set has returned the listing ss to its caller *)
AfterGet(r, ss) ==
    CASE r.gssRet = "clean" ->
            IF Len(ss) > 1
            THEN [r EXCEPT !.pc = "del", !.todo = Tail(ss)]
            ELSE AfterClean(r)
      [] r.gssRet = "add" -> [r EXCEPT !.pc = "add"]
      [] r.gssRet = "fetch" ->
            IF r.kind = "message"
            THEN [r EXCEPT !.pc = "reply_sticker", !.file_id = Last(ss)]
            ELSE [r EXCEPT !.pc = "answer", !.file_id = Last(ss),
                           !.results = <<[id |-> KeyId(nextKey),
                                          sticker_file_id |-> Last(ss)]>>
                                       \o r.results]

(* lines 237-238 with temp_file_ids replaced by {key: file_id} *)
StoreTempOverwrites(u, r, ss) ==
    IF r.gssRet = "fetch" /\ r.kind = "inline"
    THEN /\ temp' = [temp EXCEPT ![u] = (nextKey :> Last(ss))]
         /\ nextKey' = nextKey + 1
    ELSE UNCHANGED <<temp, nextKey>>

(* inline() lines 237-238, run when get_sticker_id returns to inline *)
StoreTemp(u, r, ss) ==
    IF r.gssRet = "fetch" /\ r.kind = "inline"
    THEN /\ temp' = [temp EXCEPT ![u] = (nextKey :> Last(ss)) @@ temp[u]]
         /\ nextKey' = nextKey + 1
    ELSE UNCHANGED <<temp, nextKey>>

(* message(): lines 205-208, up to the first platform call of get_sticker_id *)
Message(u, text) ==
    /\ Dispatch(u)
    /\ proc' = [proc EXCEPT ![u] =
                  EnterClean([Idle EXCEPT !.kind = "message", !.text = text],
                             "publish")]
    /\ update' = NoUpdate
    /\ raised' = NoException
    /\ UNCHANGED dialog
    /\ UNCHANGED <<created, stickers, rendered, nextKey, history, temp>>

(* inline() without the test of line 234: an empty query is published too *)
InlineAlwaysPublishes(u, query) ==
    /\ Dispatch(u)
    /\ proc' = [proc EXCEPT ![u] =
                  EnterClean([Idle EXCEPT !.kind = "inline", !.text = query,
                                          !.results = HistoryResults(u)],
                             "publish")]
    /\ update' = NoUpdate
    /\ raised' = NoException
    /\ UNCHANGED dialog
    /\ UNCHANGED <<created, stickers, rendered, nextKey, history, temp>>

(* inline(): lines 224-236 *)
Inline(u, query) ==
    /\ Dispatch(u)
    /\ LET r == [Idle EXCEPT !.kind = "inline", !.text = query,
                             !.results = HistoryResults(u)]
       IN  proc' = [proc EXCEPT ![u] =
                      IF query # "" THEN EnterClean(r, "publish")
                      ELSE [r EXCEPT !.pc = "answer"]]
    /\ update' = NoUpdate
    /\ raised' = NoException
    /\ UNCHANGED dialog
    /\ UNCHANGED <<created, stickers, rendered, nextKey, history, temp>>

(* get_sticker_set line 135: the listing, or BadRequest 'invalid' (line 137) *)
GetStickerSet(u) ==
    /\ proc[u].pc = "gss"
    /\ IF created
       THEN /\ proc' = [proc EXCEPT ![u] = AfterGet(proc[u], stickers)]
            /\ StoreTemp(u, proc[u], stickers)
       ELSE /\ proc' = [proc EXCEPT ![u].pc = "create"]
            /\ UNCHANGED <<temp, nextKey>>
    /\ update' = NoUpdate
    /\ raised' = NoException
    /\ UNCHANGED dialog
    /\ UNCHANGED <<created, stickers, rendered, history>>

(* get_sticker_set lines 138-139: the platform rejects the name of a set   *)
(* that exists; the call is inside no try, so the BadRequest leaves the    *)
(* handler                                                                 *)
CreateNewStickerSet(u) ==
    /\ proc[u].pc = "create"
    /\ IF created
       THEN /\ proc' = [proc EXCEPT ![u] = OnError(Occupied)]
            /\ raised' = Exception(u, Occupied)
            /\ UNCHANGED <<created, stickers>>
       ELSE /\ created' = TRUE
            /\ stickers' = <<Seed>>
            /\ proc' = [proc EXCEPT ![u].pc = "gss2"]
            /\ raised' = NoException
    /\ update' = NoUpdate
    /\ UNCHANGED dialog
    /\ UNCHANGED <<rendered, nextKey, history, temp>>

(* get_sticker_set line 140 *)
GetStickerSetAgain(u) ==
    /\ proc[u].pc = "gss2"
    /\ created
    /\ proc' = [proc EXCEPT ![u] = AfterGet(proc[u], stickers)]
    /\ StoreTemp(u, proc[u], stickers)
    /\ update' = NoUpdate
    /\ raised' = NoException
    /\ UNCHANGED dialog
    /\ UNCHANGED <<created, stickers, rendered, history>>

(* clean_sticker_set line 155: the loop goes on to its next sticker, or ends *)
NextSticker(r) ==
    IF Len(r.todo) > 1 THEN [r EXCEPT !.todo = Tail(r.todo)] ELSE AfterClean(r)

(* clean_sticker_set with an except clause that re-raises every BadRequest *)
DeleteBadRequestRaises(r, msg) == OnError(msg)

(* clean_sticker_set lines 157-161: the except clause of the delete *)
DeleteBadRequest(r, msg) ==
    IF msg = NotModified THEN NextSticker(r) ELSE OnError(msg)

(* clean_sticker_set lines 155-156: one iteration. The platform answers the *)
(* delete of a sticker that is not in the set with 'Stickerset_not_modified'. *)
DeleteStickerFromSet(u) ==
    /\ proc[u].pc = "del"
    /\ LET f == Head(proc[u].todo)
           present == \E i \in 1..Len(stickers) : stickers[i] = f
       IN  IF present
           THEN /\ stickers' = RemoveSticker(stickers, f)
                /\ proc' = [proc EXCEPT ![u] = NextSticker(proc[u])]
                /\ raised' = NoException
           ELSE /\ stickers' = stickers
                /\ proc' = [proc EXCEPT ![u] = DeleteBadRequest(proc[u], NotModified)]
                /\ raised' = Exception(u, NotModified)
    /\ update' = NoUpdate
    /\ UNCHANGED dialog
    /\ UNCHANGED <<created, rendered, nextKey, history, temp>>

(* get_sticker_id line 189, then line 191 is the next platform call *)
AddStickerToSet(u) ==
    /\ proc[u].pc = "add"
    /\ created
    /\ stickers' = Append(stickers, NextId)
    /\ rendered' = Append(rendered, u)
    /\ proc' = [proc EXCEPT ![u].pc = "gss", ![u].gssRet = "fetch",
                            ![u].mine = NextId]
    /\ update' = NoUpdate
    /\ raised' = NoException
    /\ UNCHANGED dialog
    /\ UNCHANGED <<created, nextKey, history, temp>>

(* message() with file_ids.insert(0, file_id) at line 210 *)
ReplyStickerPrepends(u) ==
    /\ proc[u].pc = "reply_sticker"
    /\ history' = [history EXCEPT ![u] = <<proc[u].file_id>> \o history[u]]
    /\ proc' = [proc EXCEPT ![u] = FinalClean(proc[u])]
    /\ update' = NoUpdate
    /\ raised' = NoException
    /\ UNCHANGED dialog
    /\ UNCHANGED <<created, stickers, rendered, nextKey, temp>>

(* message() lines 209-210, then 213 *)
ReplySticker(u) ==
    /\ proc[u].pc = "reply_sticker"
    /\ history' = [history EXCEPT ![u] = Append(history[u], proc[u].file_id)]
    /\ proc' = [proc EXCEPT ![u] = FinalClean(proc[u])]
    /\ update' = NoUpdate
    /\ raised' = NoException
    /\ UNCHANGED dialog
    /\ UNCHANGED <<created, stickers, rendered, nextKey, temp>>

(* message() line 212, then 213 *)
ReplyText(u) ==
    /\ proc[u].pc = "reply_text"
    /\ proc' = [proc EXCEPT ![u] = FinalClean(proc[u])]
    /\ update' = NoUpdate
    /\ raised' = NoException
    /\ UNCHANGED dialog
    /\ UNCHANGED <<created, stickers, rendered, nextKey, history, temp>>

(* inline() lines 246-247, then 254: the query is answered *)
AnswerInlineQuery(u) ==
    /\ proc[u].pc = "answer"
    /\ proc' = [proc EXCEPT ![u] = FinalClean(proc[u])]
    /\ update' = NoUpdate
    /\ raised' = NoException
    /\ UNCHANGED dialog
    /\ UNCHANGED <<created, stickers, rendered, nextKey, history, temp>>

(* inline() with an except clause that re-raises every BadRequest *)
AnswerBadRequestRaises(r, msg) == OnError(msg)

(* inline() lines 248-252, then 254: the except clause of the answer *)
AnswerBadRequest(r, msg) ==
    IF msg = TooOld THEN FinalClean(r) ELSE OnError(msg)

(* inline() lines 246-252: the platform rejects the answer with a BadRequest *)
AnswerRejected(u, msg) ==
    /\ proc[u].pc = "answer"
    /\ proc' = [proc EXCEPT ![u] = AnswerBadRequest(proc[u], msg)]
    /\ update' = NoUpdate
    /\ raised' = Exception(u, msg)
    /\ UNCHANGED dialog
    /\ UNCHANGED <<created, stickers, rendered, nextKey, history, temp>>

(* A platform call fails with an error e no except clause of the handler   *)
(* passes over (lines 142, 161, 252, or no except clause): the handler is  *)
(* left and error() is called with e.                                      *)
Raise(u, e) ==
    /\ proc[u].pc \in PlatformPcs
    /\ proc' = [proc EXCEPT ![u] = OnError(e)]
    /\ update' = NoUpdate
    /\ raised' = Exception(u, e)
    /\ UNCHANGED dialog
    /\ UNCHANGED <<created, stickers, rendered, nextKey, history, temp>>

(* error() lines 79-81, RetryAfter: time.sleep has returned, and error()   *)
(* returns                                                                 *)
Sleep(u) ==
    /\ proc[u].pc = "sleep"
    /\ proc' = [proc EXCEPT ![u] = Idle]
    /\ update' = NoUpdate
    /\ raised' = NoException
    /\ UNCHANGED dialog
    /\ UNCHANGED <<created, stickers, rendered, nextKey, history, temp>>

(* temp_dict.get(result_id), line 268 *)
Get(d, k) == IF k \in DOMAIN d THEN d[k] ELSE None

(* the result_id as a key of temp_file_ids *)
KeyOf(rid) == rid[2]

(* handle_chosen_inline_result that looks up only the newest key *)
HandleChosenNewestOnly(u, result_id) ==
    /\ Dispatch(u)
    /\ IF ~StartsWithTweet(result_id)
       THEN LET newest == \A k \in DOMAIN temp[u] : k <= KeyOf(result_id)
                file_id == IF newest THEN Get(temp[u], KeyOf(result_id))
                           ELSE None
            IN  /\ history' = [history EXCEPT ![u] =
                                 IF file_id # None
                                 THEN Append(history[u], file_id)
                                 ELSE history[u]]
                /\ temp' = [temp EXCEPT ![u] = EmptyDict]
       ELSE UNCHANGED <<history, temp>>
    /\ update' = [user |-> u, result_id |-> result_id]
    /\ raised' = NoException
    /\ UNCHANGED dialog
    /\ UNCHANGED <<created, stickers, rendered, nextKey, proc>>

(* handle_chosen_inline_result without temp_dict.clear() of line 271 *)
HandleChosenKeepsTemp(u, result_id) ==
    /\ Dispatch(u)
    /\ IF ~StartsWithTweet(result_id)
       THEN LET file_id == Get(temp[u], KeyOf(result_id))
            IN  /\ history' = [history EXCEPT ![u] =
                                 IF file_id # None
                                 THEN Append(history[u], file_id)
                                 ELSE history[u]]
                /\ UNCHANGED temp
       ELSE UNCHANGED <<history, temp>>
    /\ update' = [user |-> u, result_id |-> result_id]
    /\ raised' = NoException
    /\ UNCHANGED dialog
    /\ UNCHANGED <<created, stickers, rendered, nextKey, proc>>

(* handle_chosen_inline_result, lines 265-271 *)
HandleChosenInlineResult(u, result_id) ==
    /\ Dispatch(u)
    /\ IF ~StartsWithTweet(result_id)
       THEN LET file_id == Get(temp[u], KeyOf(result_id))
            IN  /\ history' = [history EXCEPT ![u] =
                                 IF file_id # None
                                 THEN Append(history[u], file_id)
                                 ELSE history[u]]
                /\ temp' = [temp EXCEPT ![u] = EmptyDict]
       ELSE UNCHANGED <<history, temp>>
    /\ update' = [user |-> u, result_id |-> result_id]
    /\ raised' = NoException
    /\ UNCHANGED dialog
    /\ UNCHANGED <<created, stickers, rendered, nextKey, proc>>

(* Bound on the updates the environment sends: a text that renders is sent  *)
(* only by a user of P, and only while fewer than B stickers were added or *)
(* are about to be.                                                        *)
MaySend(u, text, P, B) == text = "ok" => (u \in P /\ Publishing < B)

(* E: the errors the platform fails a call with *)
Handlers(P, B, E) ==
    \/ \E u \in Users, text \in {"ok", "bad"} :
          MaySend(u, text, P, B) /\ Message(u, text)
    \/ \E u \in Users, query \in {"", "ok", "bad"} :
          MaySend(u, query, P, B) /\ Inline(u, query)
    \/ \E u \in Users : GetStickerSet(u)
    \/ \E u \in Users : CreateNewStickerSet(u)
    \/ \E u \in Users : GetStickerSetAgain(u)
    \/ \E u \in Users : DeleteStickerFromSet(u)
    \/ \E u \in Users : AddStickerToSet(u)
    \/ \E u \in Users : ReplySticker(u)
    \/ \E u \in Users : ReplyText(u)
    \/ \E u \in Users : AnswerInlineQuery(u)
    \/ \E u \in Users, msg \in {TooOld, OtherBadRequest} : AnswerRejected(u, msg)
    \/ \E u \in Users, e \in E : Raise(u, e)
    \/ \E u \in Users : \E rid \in ResultIds(u) : HandleChosenInlineResult(u, rid)

(* every user publishes *)
Next == Handlers(Users, MaxPublish, {OtherBadRequest})

Spec == Init /\ [][Next]_vars

(* one user publishes, to a longer History; the other user's handlers trim *)
NextDeep == Handlers({"u1"}, MaxDeep, {OtherBadRequest})

SpecDeep == Init /\ [][NextDeep]_vars

(* the platform's flood control: calls fail with RetryAfter, error() sleeps *)
NextFlood ==
    \/ Handlers(Users, MaxFlood, {"RetryAfter"})
    \/ \E u \in Users : Sleep(u)

SpecFlood == Init /\ [][NextFlood]_vars

----------------------------------------------------------------------------
(* The set_timezone conversation of src/bot/settimezone.py: one            *)
(* ConversationHandler, keyed by user (per_user, line 138).                *)

(* the update of u handled in this step (its kind, and the result_id or   *)
(* text it carries), the callback run for it, and the callback run for u  *)
(* in the step before                                                     *)
Handled(u, kind, value, cb) ==
    [user |-> u, kind |-> kind, value |-> value, callback |-> cb,
     after |-> IF handled.user = u THEN handled.callback ELSE "none"]

(* a conversation whose state handlers still match after it has ended *)
CallbackResumes(state, kind) ==
    CASE kind = "inline_query" -> "handle_inline_query"
      [] kind \in {"chosen_inline_result", "via_bot_message"} -> "handle_timezone"
      [] OTHER -> IF state = END
                  THEN IF kind = "set_timezone" THEN "start" ELSE "none"
                  ELSE "fallback"

(* The callback the conversation built at lines 124-139 runs for an update *)
(* of the given kind: with no conversation under way only the entry point  *)
(* is tried (line 125); in State the handlers of lines 128-131, and the    *)
(* fallbacks (line 135) for an update none of them takes.                  *)
Callback(state, kind) ==
    IF state = END
    THEN IF kind = "set_timezone" THEN "start" ELSE "none"
    ELSE CASE kind = "inline_query" -> "handle_inline_query"
           [] kind \in {"chosen_inline_result", "via_bot_message"} -> "handle_timezone"
           [] OTHER -> "fallback"

(* An update the conversation does not take is an unmatched update of the *)
(* application, which answers it with the fallback handler.               *)
Route(cb) == IF cb = "none" THEN "fallback" ELSE cb

(* handle_timezone that stays in State *)
handle_timezone_stays(u, value) ==
    /\ tzinfo' = [tzinfo EXCEPT ![u] = value]
    /\ conv' = [conv EXCEPT ![u] = State]

(* start, lines 44-55 *)
start(u) ==
    /\ conv' = [conv EXCEPT ![u] = State]
    /\ UNCHANGED tzinfo

(* handle_inline_query, lines 68-86 *)
handle_inline_query(u) ==
    /\ conv' = [conv EXCEPT ![u] = State]
    /\ UNCHANGED tzinfo

(* handle_timezone, lines 99-112: value is chosen_inline_result.result_id *)
(* or message.text                                                        *)
handle_timezone(u, value) ==
    /\ tzinfo' = [tzinfo EXCEPT ![u] = value]
    /\ conv' = [conv EXCEPT ![u] = END]

(* FALLBACK_HANDLER: answers the update, the conversation stays as it is *)
fallback(u) == UNCHANGED <<conv, tzinfo>>

(* An update of user u reaches the conversation; the timeout of line 136  *)
(* counts from the last update the conversation handled.                  *)
HandleUpdate(u, kind, value) ==
    LET cb == Route(Callback(conv[u], kind))
    IN  /\ CASE cb = "start" -> start(u)
             [] cb = "handle_inline_query" -> handle_inline_query(u)
             [] cb = "handle_timezone" -> handle_timezone(u, value)
             [] OTHER -> fallback(u)
        /\ clock' = [clock EXCEPT ![u] = 0]
        /\ handled' = Handled(u, kind, value, cb)
        /\ UNCHANGED bot

(* the updates a user sends *)
SetTimezoneCommand(u) == HandleUpdate(u, "set_timezone", NoTimezone)
InlineQuery(u) == HandleUpdate(u, "inline_query", NoTimezone)
ChosenInlineResult(u, tz) == HandleUpdate(u, "chosen_inline_result", tz)
ViaBotMessage(u, tz) == HandleUpdate(u, "via_bot_message", tz)
OtherMessage(u) == HandleUpdate(u, "message", NoTimezone)

(* a second passes in which no update of u is handled *)
Tick(u) ==
    /\ conv[u] = State
    /\ clock[u] < ConversationTimeout
    /\ clock' = [clock EXCEPT ![u] = clock[u] + 1]
    /\ handled' = NoCallback
    /\ UNCHANGED <<conv, tzinfo>>
    /\ UNCHANGED bot

(* conversation_timeout (line 136) has passed: TIMEOUT_HANDLER (line 133) *)
(* runs and the conversation ends                                         *)
Timeout(u) ==
    /\ conv[u] = State
    /\ clock[u] = ConversationTimeout
    /\ conv' = [conv EXCEPT ![u] = END]
    /\ clock' = [clock EXCEPT ![u] = 0]
    /\ handled' = Handled(u, "none", NoTimezone, "timeout")
    /\ UNCHANGED tzinfo
    /\ UNCHANGED bot

NextTimezone ==
    \/ \E u \in Users : SetTimezoneCommand(u)
    \/ \E u \in Users : InlineQuery(u)
    \/ \E u \in Users, tz \in Timezones : ChosenInlineResult(u, tz)
    \/ \E u \in Users, tz \in Timezones : ViaBotMessage(u, tz)
    \/ \E u \in Users : OtherMessage(u)
    \/ \E u \in Users : Tick(u)
    \/ \E u \in Users : Timeout(u)

SpecTimezone == Init /\ [][NextTimezone]_vars

----------------------------------------------------------------------------
(* Vocabulary of the claims *)

StickerIds(results) == [i \in 1..Len(results) |-> results[i].sticker_file_id]

(* u is inside get_sticker_id's lines 188-192: get_sticker_set, *)
(* add_sticker_to_set, get_sticker_set, stickers[-1]            *)
InPublish(u) ==
    /\ proc[u].pc \in {"gss", "create", "gss2", "add"}
    /\ proc[u].gssRet \in {"add", "fetch"}

(* u is inside clean_sticker_set *)
InTrim(u) ==
    /\ proc[u].pc \in {"gss", "create", "gss2", "del"}
    /\ proc[u].gssRet = "clean"

(* get_sticker_id has returned to the handler of u *)
Returned(u) == proc[u].pc \in {"reply_sticker", "answer"} /\ proc[u].file_id # None

(* f is the file id of a sticker built from a text of another user than u *)
ForeignReference(u, f) == f \in 1..Len(rendered) /\ rendered[f] # u

(* the last step handled a chosen_inline_result update of user u *)
Chosen(u) == update.user = u

----------------------------------------------------------------------------
(* C1: once the sticker set is created it holds 1 or 2 stickers, under every *)
(* interleaving of the handlers' get_sticker_id and clean_sticker_set calls  *)
(* and whatever platform call fails.                                          *)
C1_SizeOneOrTwo == created => Len(stickers) \in {1, 2}

(* C2: the file id get_sticker_id returns is the file id of the sticker that *)
(* this call added: never the seed's, never another request's.               *)
C2_ReturnsOwnArtifact ==
    \A u \in Users : Returned(u) => proc[u].file_id = proc[u].mine

(* C3: no two requests are inside get_sticker_id's get/add/get sequence at   *)
(* the same time, and no clean_sticker_set runs while another request is     *)
(* inside that sequence.                                                      *)
C3_MutualExclusion ==
    \A u, v \in Users :
        (u # v /\ InPublish(u)) => ~InPublish(v) /\ ~InTrim(v)

(* C4: with publishes of two users interleaved, the reference a chosen-   *)
(* result update promotes into a user's History is the reference rendered  *)
(* for that user's own query: a reference published for another user      *)
(* never enters the user's History.                                        *)
C4_NeverOthersReference ==
    [][\A u \in Users :
          (update'.user = u /\ Len(history'[u]) > Len(history[u]))
              => ~ForeignReference(u, Last(history'[u]))]_vars

C7_PromotesPending ==
    [][\A u \in Users : \A k \in DOMAIN temp[u] :
          update' = [user |-> u, result_id |-> KeyId(k)]
              => /\ history'[u] = Append(history[u], temp[u][k])
                 /\ Len(history'[u]) = Len(history[u]) + 1
                 /\ temp'[u] = EmptyDict]_vars

(* a key of temp_file_ids was cited and its reference promoted *)
C7_Witness ==
    \E u \in Users :
        /\ Chosen(u)
        /\ ~StartsWithTweet(update.result_id)
        /\ KeyOf(update.result_id) >= 1
        /\ Len(history[u]) >= 1
        /\ temp[u] = EmptyDict

(* C8: a chosen-result update that cites a cached sticker ('tweet i') or a   *)
(* key that is not in temp_file_ids leaves the user's History unchanged and  *)
(* temp_file_ids empty.                                                       *)
C8_NoPromotionAndCleared ==
    [][\A u \in Users :
          (/\ update'.user = u
           /\ \/ StartsWithTweet(update'.result_id)
              \/ KeyOf(update'.result_id) \notin DOMAIN temp[u])
              => /\ history'[u] = history[u]
                 /\ temp'[u] = EmptyDict]_vars

(* C9: the handler of an empty inline query adds no sticker, issues no key,  *)
(* leaves temp_file_ids and History alone, and answers with the user's       *)
(* History references, last one first.                                        *)
C9_EmptyQueryPublishesNothing ==
    [][\A u \in Users :
          /\ (proc[u].pc = "idle" /\ proc'[u].kind = "inline" /\ proc'[u].text = "")
                => /\ proc'[u].pc = "answer"
                   /\ StickerIds(proc'[u].results) = Reversed(history[u])
                   /\ UNCHANGED <<stickers, rendered, nextKey, temp, history>>
          /\ (/\ proc[u].kind = "inline" /\ proc[u].text = ""
              /\ proc[u].pc = "answer"
              /\ proc'[u] # proc[u])
                => /\ StickerIds(proc[u].results) = Reversed(history[u])
                   /\ UNCHANGED <<stickers, rendered, nextKey, temp, history>>
          /\ (/\ proc[u].kind = "inline" /\ proc[u].cleanRet = "end"
              /\ proc'[u] # proc[u])
                => UNCHANGED <<rendered, nextKey, temp, history>>]_vars

(* an empty query is about to be answered with two History references *)
C9_Witness ==
    \E u \in Users :
        /\ proc[u].kind = "inline" /\ proc[u].text = "" /\ proc[u].pc = "answer"
        /\ Len(history[u]) >= 2
        /\ history[u][1] # history[u][2]

(* C10: the answer to a non-empty inline query whose text renders is the     *)
(* reference get_sticker_id returned (under the key just issued), then the   *)
(* user's History references, last one first, and nothing else.              *)
C10_PendingFirstThenHistory ==
    \A u \in Users :
        (proc[u].kind = "inline" /\ proc[u].text = "ok" /\ proc[u].pc = "answer")
            => LET r == proc[u].results
               IN  /\ Len(r) = Len(history[u]) + 1
                   /\ r[1].sticker_file_id = proc[u].file_id
                   /\ ~StartsWithTweet(r[1].id)
                   /\ Get(temp[u], KeyOf(r[1].id)) = proc[u].file_id
                   /\ Tail(StickerIds(r)) = Reversed(history[u])

(* a rendered query is about to be answered, with two History references *)
C10_Witness ==
    \E u \in Users :
        /\ proc[u].kind = "inline" /\ proc[u].text = "ok" /\ proc[u].pc = "answer"
        /\ Len(history[u]) >= 2
        /\ history[u][1] # history[u][2]

(* the handler of u is in flight for a text build_sticker raises           *)
(* HyphenationError for                                                     *)
RenderFails(u) == proc[u].pc # "idle" /\ proc[u].text = "bad"

(* this step is a step of the handler of u *)
StepOf(u) == proc'[u] # proc[u]

(* no other handler than the one of u is in flight *)
Alone(u) == \A v \in Users \ {u} : proc[v].pc = "idle"

(* the stickers of the set, the seed apart, were added by earlier handlers *)
(* of u: they were in the set when the handler of u in flight began        *)
OwnLeftovers(u) ==
    \A i \in 1..Len(stickers) : stickers[i] = Seed \/ rendered[stickers[i]] = u

C12_BothCallsReturn ==
    \A u \in Users : raised = Exception(u, Occupied) => proc[u].pc = "gss2"

(* the step of u is a platform call that returned, or one that raised the  *)
(* BadRequest msg                                                          *)
ReturnedOrRaised(u, msg) == raised'.user # u \/ raised'.exc = msg

(* C13: clean_sticker_set deletes every sticker of its listing but the     *)
(* first and changes nothing when the listing holds one sticker; a delete  *)
(* of a sticker another clean_sticker_set has deleted already              *)
(* ('Stickerset_not_modified') is passed over and the loop goes on, so     *)
(* both calls return without error; when the call returns the set holds    *)
(* the seed and nothing else but stickers added after its listing.         *)
C13_TrimToSeed ==
    [][\A u \in Users :
          /\ InTrim(u) /\ proc[u].pc \in {"gss", "gss2"} /\ created /\ StepOf(u)
                /\ raised'.user # u
             => /\ stickers' = stickers
                /\ IF Len(stickers) > 1
                   THEN proc'[u].pc = "del" /\ proc'[u].todo = Tail(stickers)
                   ELSE ~InTrim(u)'
          /\ proc[u].pc = "del" /\ StepOf(u) /\ ReturnedOrRaised(u, NotModified)
             => LET f == Head(proc[u].todo)
                IN  /\ stickers' = RemoveSticker(stickers, f)
                    /\ stickers'[1] = Seed
                    /\ IF Len(proc[u].todo) > 1
                       THEN /\ proc'[u].pc = "del"
                            /\ proc'[u].todo = Tail(proc[u].todo)
                       ELSE /\ ~InTrim(u)'
                            /\ proc'[u].pc = "idle" => proc[u].cleanRet = "end"
                            /\ \A i \in 1..Len(stickers') :
                                  stickers'[i] = Seed \/ stickers'[i] > f]_vars

(* two clean_sticker_set calls overlapped: the delete of u was answered    *)
(* with 'Stickerset_not_modified', both calls have returned and the set    *)
(* holds the seed only                                                     *)
C13_Witness ==
    \E u \in Users :
        /\ raised = Exception(u, NotModified)
        /\ \A v \in Users : ~InTrim(v)
        /\ Len(rendered) > 0
        /\ stickers = <<Seed>>

(* the update handled in this step is a chosen_inline_result or a message  *)
(* sent via the bot, of user u                                             *)
Selection(u) ==
    /\ handled'.user = u
    /\ handled'.kind \in {"chosen_inline_result", "via_bot_message"}

C15_RetriedAfterDelay ==
    [][\A u \in Users :
          proc[u].pc = "sleep" /\ StepOf(u) => proc'[u].pc \in PlatformPcs]_vars

(* C16: whenever no message or inline handler is in flight, however the    *)
(* last one ended, the sticker set holds the seed only.                    *)
C16_BackToSeed ==
    created /\ (\A u \in Users : proc[u].pc = "idle") => stickers = <<Seed>>

(* the handler of u has entered the clean_sticker_set of line 213 / 254 *)
TrailingClean(r) == r.pc = "gss" /\ r.gssRet = "clean" /\ r.cleanRet = "end"

(* C17: when the platform rejects the answer of an inline query with       *)
(* 'Query is too old' the inline handler goes on to its trailing           *)
(* clean_sticker_set as after an answer that succeeded, and error() is not *)
(* called; with any other failure of the answer the handler is left and    *)
(* error() is called.                                                      *)
C17_TooOldPassedOver ==
    [][\A u \in Users :
          proc[u].pc = "answer" /\ StepOf(u)
          => IF ReturnedOrRaised(u, TooOld)
             THEN TrailingClean(proc'[u]) /\ proc'[u].kind = "inline"
             ELSE proc'[u].pc \in {"idle", "sleep"}]_vars

(* the answer of u was rejected with 'Query is too old' and the handler   *)
(* is in its trailing clean_sticker_set                                    *)
C17_Witness ==
    \E u \in Users :
        raised = Exception(u, TooOld) /\ TrailingClean(proc[u])

IsPrefix(s, t) == Len(s) <= Len(t) /\ \A i \in 1..Len(s) : s[i] = t[i]

(* C19: file_ids only grows at its end, by at most one reference a step;   *)
(* the message handler appends the reference get_sticker_id returned, once, *)
(* in the step in which reply_sticker succeeded, and nowhere else; no step *)
(* of an inline handler changes any file_ids; otherwise file_ids changes   *)
(* only in the step that handles a chosen_inline_result of its user.       *)
C19_HistoryAppendOnly ==
    [][\A u \in Users :
          /\ IsPrefix(history[u], history'[u])
          /\ Len(history'[u]) <= Len(history[u]) + 1
          /\ proc[u].pc = "reply_sticker" /\ StepOf(u)
             => IF raised'.user # u
                THEN /\ proc[u].mine # None
                     /\ history'[u] = Append(history[u], proc[u].file_id)
                ELSE history'[u] = history[u]
          /\ proc[u].pc # "reply_sticker" /\ StepOf(u) => history' = history
          /\ proc[u].kind = "inline" /\ StepOf(u) => history' = history
          /\ history'[u] # history[u] /\ ~StepOf(u)
             => update'.user = u /\ proc[u].pc = "idle"]_vars

(* file_ids of a user has grown twice, the last time by the message handler *)
C19_Witness ==
    \E u \in Users :
        /\ Len(history[u]) >= 2
        /\ proc[u].kind = "message"
        /\ TrailingClean(proc[u])
        /\ Last(history[u]) = Last(stickers)

(* C20: once the sticker set is created the seed is, in every reachable    *)
(* state, a sticker of the set and its first one, whatever                 *)
(* clean_sticker_set calls interleave.                                     *)
C20_SeedStaysFirst ==
    created => Len(stickers) >= 1 /\ stickers[1] = Seed

(* stickers were added and deleted again, by clean_sticker_set calls that  *)
(* overlapped, and the set holds the seed                                  *)
C20_Witness ==
    /\ created
    /\ Len(rendered) >= 2
    /\ stickers = <<Seed>>
    /\ \E u \in Users : raised = Exception(u, NotModified)
====
